---------------------------- MODULE Spec2Model ----------------------------
(***************************************************************************)
(* The read-only rosbag_v2 storage plugin (RosbagV2Storage) and the        *)
(* rosbag_v2 deserializer (RosbagV2Deserializer) of rosbag2_bag_v2.        *)
(*                                                                         *)
(* The legacy log is a list of connections (topic, datatype) and a time    *)
(* ordered list of messages, each written on one connection.  The adapter  *)
(* owns a bag handle, a view restricted to the replayable topics and an    *)
(* iterator into that view.                                                *)
(***************************************************************************)
EXTENDS Integers, Sequences, FiniteSets, TLC

\* ------------------------------------------------------------------ bounds
MaxConns == 2          \* connections in a legacy log
MaxMsgs == 3           \* messages in a legacy log
MaxNameLen == 2        \* bytes in a legacy type name given to the codec
MaxPayloadLen == 2     \* bytes in a raw message given to the codec

\* ------------------------------------------------------- the input domain
\* Type names are byte strings (no byte is 0); the buffer carries the legacy
\* ones.  A ROS 2 type name is the legacy name with "msg" put in.
STD_MSGS_STRING == <<83, 116>>
STD_MSGS_INT32 == <<73>>
MY_PKG_UNMAPPED == <<85, 110>>
STD_MSGS_MSG_STRING == <<109, 83, 116>>
STD_MSGS_MSG_INT32 == <<109, 73>>
DataTypes == {STD_MSGS_STRING, STD_MSGS_INT32, MY_PKG_UNMAPPED}
Topics == {"/chatter", "/other"}
\* Paths handed to open(): directory components, then the file name.
BagPath == <<"data", "test.bag">>
MissingPath == <<"data", "missing.bag">>
Uris == {BagPath, MissingPath}
IOFlags == {"READ_ONLY", "READ_WRITE"}
\* The type support handles a caller may pass to deserialize().
TypeSupports == {"ts_string", "ts_int32"}

\* ------------------------------------------------------------------- state
VARIABLES
    log,                                \* the legacy log stored at BagPath
    ros_v2_bag_,                        \* file name of the open bag, <<>> when not open
    bag_view_of_replayable_messages_,   \* null, or the view: its query's topics and its
                                        \* message indices
    bag_iterator_,                      \* position in the view; 0 when never assigned
    phase,                              \* "alive", "undefined", "crashed" or "destroyed"
    ret,                                \* the last call and its outcome
    out,                                \* the records read_next() has returned since open()
    metadataSeen                        \* the caller's copy of a get_metadata() result

vars == <<log, ros_v2_bag_, bag_view_of_replayable_messages_, bag_iterator_,
          phase, ret, out, metadataSeen>>

adapter == <<ros_v2_bag_, bag_view_of_replayable_messages_, bag_iterator_>>

\* ---------------------------------------------------------------- helpers
\* ros::Time::toNSec(): sec * 1e9 + nsec.
toNSec(t) ==
    t.sec * 1000000000 + t.nsec

TimeLeq(a, b) ==
    a.sec < b.sec \/ (a.sec = b.sec /\ a.nsec <= b.nsec)

\* ros::TIME_MAX and ros::TIME_MIN, what a view without messages reports as
\* begin and end.  TIME_MAX is the largest time the model's integers hold
\* (its seconds field is 2^32 - 1 in ros::Time).
TIME_MAX == [sec |-> 2, nsec |-> 147483647]
TIME_MIN == [sec |-> 0, nsec |-> 1]

\* The k-th message of a log: its ros::Time (ascending along the index, the
\* seconds field moving too) and its raw legacy-encoded body, which may be
\* empty and may hold a 0 byte.
MsgTime(k) ==
    [sec |-> k \div 3, nsec |-> 100 * (k % 3)]

MsgData(k) ==
    IF k % 2 = 1 THEN <<0, 7>> ELSE <<>>

SeqsUpTo(S, n) ==
    UNION {[1..k -> S] : k \in 0..n}

Connections == [topic : Topics, datatype : DataTypes]

\* The connection lists of the logs: at least one connection.  Topic names
\* are interchangeable and so are the two mapped types, so the first
\* connection is on "/chatter" and the first mapped type is std_msgs/String.
ConnectionLists ==
    {c \in SeqsUpTo(Connections, MaxConns) :
        /\ c # <<>>
        /\ c[1].topic = "/chatter"
        /\ \A i \in 1..Len(c) :
               c[i].datatype = STD_MSGS_INT32
                   => \E j \in 1..(i - 1) : c[j].datatype = STD_MSGS_STRING}

\* The logs a bag file can hold: each message is written on one of the log's
\* connections, and the index lists the messages in time order.
Logs ==
    {[conns |-> c,
      msgs |-> [k \in 1..Len(w) |->
                   [conn |-> w[k], time |-> MsgTime(k), data |-> MsgData(k)]]] :
        c \in ConnectionLists, w \in SeqsUpTo(1..MaxConns, MaxMsgs)}

IsLog(l) ==
    /\ \A i \in 1..Len(l.msgs) : l.msgs[i].conn \in 1..Len(l.conns)
    /\ \A i \in 1..(Len(l.msgs) - 1) : TimeLeq(l.msgs[i].time, l.msgs[i + 1].time)

\* get_1to2_mapping(ros1_type, ros2_type): <<host type name>> when the legacy
\* type has an entry in the mapping table, <<>> when it has none.
get_1to2_mapping(datatype) ==
    IF datatype = STD_MSGS_STRING THEN <<STD_MSGS_MSG_STRING>>
    ELSE IF datatype = STD_MSGS_INT32 THEN <<STD_MSGS_MSG_INT32>>
    ELSE <<>>

\* vector_has_already_element<T>(vector, element)
vector_has_already_element(vector, element) ==
    \E i \in 1..Len(vector) : vector[i] = element

\* ------------------------------------------------ the legacy log library
\* rosbag::Bag: the connections and the message index of the bag; a bag that
\* is not open has neither.
EmptyBag == [conns |-> <<>>, msgs |-> <<>>]

Bag ==
    IF ros_v2_bag_ = <<>> THEN EmptyBag ELSE log

\* rosbag::View(bag): every message of the bag, in index order.
View(bag) ==
    [i \in 1..Len(bag.msgs) |-> i]

\* rosbag::TopicQuery(topics) applied to a connection.
TopicQuery(topics, connection) ==
    \E i \in 1..Len(topics) : topics[i] = connection.topic

\* rosbag::View(bag, rosbag::TopicQuery(topics)): the messages whose
\* connection the query accepts, in index order (from message i on).
RECURSIVE ViewTopicQuery(_, _, _)
ViewTopicQuery(bag, topics, i) ==
    IF i > Len(bag.msgs) THEN <<>>
    ELSE IF TopicQuery(topics, bag.conns[bag.msgs[i].conn])
    THEN <<i>> \o ViewTopicQuery(bag, topics, i + 1)
    ELSE ViewTopicQuery(bag, topics, i + 1)

\* View::getConnections() of the unrestricted view.
getConnections(bag) ==
    bag.conns

\* View::size()
ViewSize(view) ==
    Len(view)

\* View::getBeginTime(): the earliest message time, TIME_MAX without messages.
getBeginTime(bag, view) ==
    IF view = <<>> THEN TIME_MAX
    ELSE LET i == CHOOSE i \in 1..Len(view) :
                      \A j \in 1..Len(view) :
                          TimeLeq(bag.msgs[view[i]].time, bag.msgs[view[j]].time)
         IN  bag.msgs[view[i]].time

\* View::getEndTime(): the latest message time, TIME_MIN without messages.
getEndTime(bag, view) ==
    IF view = <<>> THEN TIME_MIN
    ELSE LET i == CHOOSE i \in 1..Len(view) :
                      \A j \in 1..Len(view) :
                          TimeLeq(bag.msgs[view[j]].time, bag.msgs[view[i]].time)
         IN  bag.msgs[view[i]].time

\* Whether Bag::open(uri) finds a readable bag file.
FileExists(uri) ==
    uri = BagPath

\* rcutils_get_file_size(path): the bytes of the file, 0 when there is none.
rcutils_get_file_size(path) ==
    IF FileExists(path)
    THEN 13 * (1 + Len(log.conns)) + 7 * Len(log.msgs)
    ELSE 0

\* rcpputils::fs::path(p).filename().string()
filename(path) ==
    IF path = <<>> THEN "" ELSE path[Len(path)]

\* ------------------------------------------------------------ the adapter
IDENTIFIER == "rosbag_v2"

\* The errors of the calls: the std::runtime_error open() throws for a
\* READ_WRITE flag, the rosbag::BagException of Bag::open(), and the error of
\* a transcoding that finds no mapping.  No call of the adapter raises the
\* end-of-log error.
UnsupportedModeError == "runtime_error: The rosbag_v2 storage plugin can only be used to read"
OpenError == "rosbag::BagException"
UnmappedTypeError == "no 1to2 mapping"
EndOfLogError == "end of log"

NullView == [set |-> FALSE, topics |-> <<>>, idx |-> <<>>]

Ret(op, args, status, val) ==
    [op |-> op, args |-> args, status |-> status, val |-> val]

Init ==
    /\ log \in {l \in Logs : IsLog(l)}
    /\ ros_v2_bag_ = <<>>
    /\ bag_view_of_replayable_messages_ = NullView
    /\ bag_iterator_ = 0
    /\ phase = "alive"
    /\ ret = Ret("construct", <<>>, "ok", <<>>)
    /\ out = <<>>
    /\ metadataSeen = <<>>

\* The loop of open() as it would be if the first connection of a topic
\* decided for the topic.
RECURSIVE TopicsValidInRos2FirstSeen(_, _, _)
TopicsValidInRos2FirstSeen(connection_info, i, topics_valid_in_ros2) ==
    IF i > Len(connection_info) THEN topics_valid_in_ros2
    ELSE LET connection == connection_info[i]
         IN  IF /\ get_1to2_mapping(connection.datatype) # <<>>
                /\ \A j \in 1..(i - 1) : connection_info[j].topic # connection.topic
             THEN TopicsValidInRos2FirstSeen(connection_info, i + 1,
                                             Append(topics_valid_in_ros2, connection.topic))
             ELSE TopicsValidInRos2FirstSeen(connection_info, i + 1, topics_valid_in_ros2)

\* The loop of open(): the topics of the connections whose datatype is mapped,
\* each topic once, in connection order.
RECURSIVE TopicsValidInRos2(_, _, _)
TopicsValidInRos2(connection_info, i, topics_valid_in_ros2) ==
    IF i > Len(connection_info) THEN topics_valid_in_ros2
    ELSE LET connection == connection_info[i]
         IN  IF get_1to2_mapping(connection.datatype) # <<>>
                /\ ~vector_has_already_element(topics_valid_in_ros2, connection.topic)
             THEN TopicsValidInRos2(connection_info, i + 1,
                                    Append(topics_valid_in_ros2, connection.topic))
             ELSE TopicsValidInRos2(connection_info, i + 1, topics_valid_in_ros2)

\* open() as it would be if the bag were opened before the flag is looked at.
OpenChecksFlagLate(uri, flag) ==
    /\ phase = "alive"
    /\ ros_v2_bag_ = <<>>
    /\ IF ~FileExists(uri)
       THEN /\ ret' = Ret("open", <<uri, flag>>, "throw", <<OpenError>>)
            /\ UNCHANGED <<log, adapter, phase, out, metadataSeen>>
       ELSE /\ ros_v2_bag_' = uri
            /\ ret' = Ret("open", <<uri, flag>>, "throw", <<UnsupportedModeError>>)
            /\ UNCHANGED <<log, bag_view_of_replayable_messages_, bag_iterator_,
                           phase, out, metadataSeen>>

\* RosbagV2Storage::open(uri, flag).  It is called on an adapter whose bag is
\* not open yet (a second open() after a successful one is outside the
\* interface's contract).
Open(uri, flag) ==
    /\ phase = "alive"
    /\ ros_v2_bag_ = <<>>
    /\ IF flag = "READ_WRITE"
       THEN /\ ret' = Ret("open", <<uri, flag>>, "throw", <<UnsupportedModeError>>)
            /\ UNCHANGED <<log, adapter, phase, out, metadataSeen>>
       ELSE IF ~FileExists(uri)
       THEN /\ ret' = Ret("open", <<uri, flag>>, "throw", <<OpenError>>)
            /\ UNCHANGED <<log, adapter, phase, out, metadataSeen>>
       ELSE /\ ros_v2_bag_' = uri
            /\ LET topics_valid_in_ros2 ==
                       TopicsValidInRos2(getConnections(log), 1, <<>>)
               IN  bag_view_of_replayable_messages_' =
                       [set |-> TRUE,
                        topics |-> topics_valid_in_ros2,
                        idx |-> ViewTopicQuery(log, topics_valid_in_ros2, 1)]
            /\ bag_iterator_' = 1
            /\ ret' = Ret("open", <<uri, flag>>, "ok", <<>>)
            /\ out' = <<>>
            /\ UNCHANGED <<log, phase, metadataSeen>>

\* Undefined behaviour inside a call (a null view or an iterator at end() is
\* dereferenced): the process dies, or the call comes back with a value that
\* means nothing and the object is in no defined state any more.
Undefined(op, values, iterators) ==
    /\ \/ /\ phase' = "crashed"
          /\ ret' = Ret(op, <<>>, "crash", <<>>)
          /\ bag_iterator_' = bag_iterator_
       \/ /\ phase' = "undefined"
          /\ \E v \in values : ret' = Ret(op, <<>>, "ok", <<v>>)
          /\ bag_iterator_' \in iterators
    /\ UNCHANGED <<log, ros_v2_bag_, bag_view_of_replayable_messages_, out, metadataSeen>>

\* has_next() as it would be if it compared against the last record, not end().
HasNextStopsOneEarly ==
    /\ phase = "alive"
    /\ bag_view_of_replayable_messages_.set
    /\ ret' = Ret("has_next", <<>>, "ok",
                  <<bag_iterator_ < Len(bag_view_of_replayable_messages_.idx)>>)
    /\ UNCHANGED <<log, adapter, phase, out, metadataSeen>>

\* RosbagV2Storage::has_next()
HasNext ==
    /\ phase = "alive"
    /\ IF ~bag_view_of_replayable_messages_.set
       THEN Undefined("has_next", BOOLEAN, {bag_iterator_})
       ELSE /\ ret' = Ret("has_next", <<>>, "ok",
                          <<bag_iterator_ # Len(bag_view_of_replayable_messages_.idx) + 1>>)
            /\ UNCHANGED <<log, adapter, phase, out, metadataSeen>>

\* RosbagOutputStream(data_type): the stream starts with the type name and a
\* terminating 0; MessageInstance::write() appends the raw message after it.
RosbagOutputStream(data_type) ==
    data_type \o <<0>>

\* The record read_next() builds from the message instance at index i of the bag.
SerializedBagMessage(bag, i) ==
    LET message_instance == bag.msgs[i]
        connection == bag.conns[message_instance.conn]
    IN  [topic_name |-> connection.topic,
         time_stamp |-> toNSec(message_instance.time),
         serialized_data |-> RosbagOutputStream(connection.datatype)
                                 \o message_instance.data]

\* What a read through an invalid iterator may hand back.
GarbageMessages ==
    {[topic_name |-> "", time_stamp |-> 0, serialized_data |-> <<>>]}
        \cup {out[i] : i \in {Len(out)} \ {0}}

\* read_next() as it would be without the increment of the iterator.
ReadNextKeepsIterator ==
    /\ phase = "alive"
    /\ bag_view_of_replayable_messages_.set
    /\ bag_iterator_ \in 1..Len(bag_view_of_replayable_messages_.idx)
    /\ LET serialized_message ==
               SerializedBagMessage(
                   Bag, bag_view_of_replayable_messages_.idx[bag_iterator_])
       IN  /\ ret' = Ret("read_next", <<>>, "ok", <<serialized_message>>)
           /\ out' = Append(out, serialized_message)
    /\ UNCHANGED <<log, adapter, phase, metadataSeen>>

\* RosbagV2Storage::read_next()
ReadNext ==
    /\ phase = "alive"
    /\ IF \/ ~bag_view_of_replayable_messages_.set
          \/ bag_iterator_ \notin 1..Len(bag_view_of_replayable_messages_.idx)
       THEN Undefined("read_next", GarbageMessages, {bag_iterator_, bag_iterator_ + 1})
       ELSE LET serialized_message ==
                    SerializedBagMessage(
                        Bag, bag_view_of_replayable_messages_.idx[bag_iterator_])
            IN  /\ bag_iterator_' = bag_iterator_ + 1
                /\ ret' = Ret("read_next", <<>>, "ok", <<serialized_message>>)
                /\ out' = Append(out, serialized_message)
                /\ UNCHANGED <<log, ros_v2_bag_, bag_view_of_replayable_messages_,
                               phase, metadataSeen>>

\* The loop of get_all_topics_and_types_including_ros1_topics() as it would
\* be if it kept one entry per topic name, the first one seen.
RECURSIVE IncludingRos1TopicsByName(_, _, _)
IncludingRos1TopicsByName(connection_info, i, topics_with_type) ==
    IF i > Len(connection_info) THEN topics_with_type
    ELSE IF \E j \in 1..Len(topics_with_type) :
                topics_with_type[j].name = connection_info[i].topic
         THEN IncludingRos1TopicsByName(connection_info, i + 1, topics_with_type)
         ELSE IncludingRos1TopicsByName(
                  connection_info, i + 1,
                  Append(topics_with_type,
                         [name |-> connection_info[i].topic,
                          type |-> connection_info[i].datatype,
                          serialization_format |-> "rosbag_v2"]))

\* RosbagV2Storage::get_all_topics_and_types_including_ros1_topics(): one
\* entry per distinct (name, type, serialization_format) of the connections.
RECURSIVE IncludingRos1Topics(_, _, _)
IncludingRos1Topics(connection_info, i, topics_with_type) ==
    IF i > Len(connection_info) THEN topics_with_type
    ELSE LET topic_metadata ==
                 [name |-> connection_info[i].topic,
                  type |-> connection_info[i].datatype,
                  serialization_format |-> "rosbag_v2"]
         IN  IF ~vector_has_already_element(topics_with_type, topic_metadata)
             THEN IncludingRos1Topics(connection_info, i + 1,
                                      Append(topics_with_type, topic_metadata))
             ELSE IncludingRos1Topics(connection_info, i + 1, topics_with_type)

get_all_topics_and_types_including_ros1_topics ==
    IncludingRos1Topics(getConnections(Bag), 1, <<>>)

\* The loop of get_all_topics_and_types(): the entries whose type is mapped,
\* with the type replaced by the ROS 2 type name.
RECURSIVE FilterMapped(_, _)
FilterMapped(topics_with_type_including_ros1, i) ==
    IF i > Len(topics_with_type_including_ros1) THEN <<>>
    ELSE LET topic_with_type == topics_with_type_including_ros1[i]
             ros2_type_name == get_1to2_mapping(topic_with_type.type)
         IN  IF ros2_type_name # <<>>
             THEN <<[topic_with_type EXCEPT !.type = ros2_type_name[1]]>>
                      \o FilterMapped(topics_with_type_including_ros1, i + 1)
             ELSE FilterMapped(topics_with_type_including_ros1, i + 1)

\* get_all_topics_and_types() as it would be if it kept the ROS 1 type name.
get_all_topics_and_types_keeping_ros1_type ==
    SelectSeq(get_all_topics_and_types_including_ros1_topics,
              LAMBDA topic_with_type : get_1to2_mapping(topic_with_type.type) # <<>>)

\* RosbagV2Storage::get_all_topics_and_types()
get_all_topics_and_types ==
    FilterMapped(get_all_topics_and_types_including_ros1_topics, 1)

\* RosbagV2Storage::get_storage_identifier()
get_storage_identifier ==
    IDENTIFIER

\* RosbagV2Storage::get_bagfile_size()
get_bagfile_size ==
    rcutils_get_file_size(ros_v2_bag_)

\* RosbagV2Storage::get_relative_file_path()
get_relative_file_path ==
    filename(ros_v2_bag_)

\* RosbagV2Storage::get_topic_information(): for each listed topic the size
\* of a view of the bag restricted to that topic's name.
get_topic_information ==
    LET topics_with_type == get_all_topics_and_types
    IN  [i \in 1..Len(topics_with_type) |->
            [topic_metadata |-> topics_with_type[i],
             message_count |->
                 ViewSize(ViewTopicQuery(Bag, <<topics_with_type[i].name>>, 1))]]

\* get_metadata() as it would be if it used the view of replayable messages,
\* from the iterator on, where the code builds a view of the whole bag.
get_metadata_of_replayable_view ==
    LET idx == bag_view_of_replayable_messages_.idx
        bag_view == IF bag_view_of_replayable_messages_.set
                    THEN SubSeq(idx, bag_iterator_, Len(idx))
                    ELSE <<>>
    IN  [version |-> 2,
         storage_identifier |-> get_storage_identifier,
         bag_size |-> get_bagfile_size,
         relative_file_paths |-> <<get_relative_file_path>>,
         duration |-> toNSec(getEndTime(Bag, bag_view))
                          - toNSec(getBeginTime(Bag, bag_view)),
         starting_time |-> toNSec(getBeginTime(Bag, bag_view)),
         message_count |-> ViewSize(bag_view),
         topics_with_message_count |-> get_topic_information]

\* RosbagV2Storage::get_metadata()
get_metadata ==
    LET bag_view == View(Bag)
    IN  [version |-> 2,
         storage_identifier |-> get_storage_identifier,
         bag_size |-> get_bagfile_size,
         relative_file_paths |-> <<get_relative_file_path>>,
         duration |-> toNSec(getEndTime(Bag, bag_view))
                          - toNSec(getBeginTime(Bag, bag_view)),
         starting_time |-> toNSec(getBeginTime(Bag, bag_view)),
         message_count |-> ViewSize(bag_view),
         topics_with_message_count |-> get_topic_information]

\* A getter as it would be if it rebuilt the member view and its iterator
\* where the code builds a view of its own.
QueryRewindingIterator(op, value) ==
    /\ phase = "alive"
    /\ ret' = Ret(op, <<>>, "ok", <<value>>)
    /\ bag_iterator_' = 1
    /\ UNCHANGED <<log, ros_v2_bag_, bag_view_of_replayable_messages_, phase, out,
                   metadataSeen>>

\* A call that computes a value from the bag and leaves the adapter alone.
Query(op, value) ==
    /\ phase = "alive"
    /\ ret' = Ret(op, <<>>, "ok", <<value>>)
    /\ UNCHANGED <<log, adapter, phase, out, metadataSeen>>

GetAllTopicsAndTypes ==
    Query("get_all_topics_and_types", get_all_topics_and_types)

GetStorageIdentifier ==
    Query("get_storage_identifier", get_storage_identifier)

GetBagfileSize ==
    Query("get_bagfile_size", get_bagfile_size)

GetRelativeFilePath ==
    Query("get_relative_file_path", get_relative_file_path)

\* get_metadata() as called by a user who keeps the first result obtained
\* from the open bag.
GetMetadata ==
    /\ phase = "alive"
    /\ ret' = Ret("get_metadata", <<>>, "ok", <<get_metadata>>)
    /\ metadataSeen' = IF ros_v2_bag_ # <<>> /\ metadataSeen = <<>>
                       THEN <<get_metadata>>
                       ELSE metadataSeen
    /\ UNCHANGED <<log, adapter, phase, out>>

\* ------------------------------------------------------- the deserializer
\* std::string(char *): the bytes before the first 0 of the buffer (from
\* position i on).
RECURSIVE CString(_, _)
CString(buffer, i) ==
    IF i > Len(buffer) \/ buffer[i] = 0 THEN <<>>
    ELSE <<buffer[i]>> \o CString(buffer, i + 1)

\* convert_1_to_2(ros1_data_type, stream, ros_message): the transcoding
\* function of the type fills the message from the stream; a type without a
\* mapping is an error.
convert_1_to_2(ros1_data_type, stream) ==
    IF get_1to2_mapping(ros1_data_type) # <<>>
    THEN [status |-> "ok",
          message |-> [type |-> get_1to2_mapping(ros1_data_type)[1],
                       fields |-> stream]]
    ELSE [status |-> "throw", message |-> <<>>]

\* deserialize() as it would be if it took the time stamp in microseconds.
deserialize_in_microseconds(serialized_message, type_support) ==
    LET buffer == serialized_message.serialized_data
        ros1_data_type == CString(buffer, 1)
        stream == SubSeq(buffer, Len(ros1_data_type) + 2, Len(buffer))
        converted == convert_1_to_2(ros1_data_type, stream)
    IN  IF converted.status = "ok"
        THEN [status |-> "ok",
              transcoded |-> <<ros1_data_type, stream>>,
              ros_message |-> [message |-> converted.message,
                               time_stamp |-> serialized_message.time_stamp \div 1000,
                               topic_name |-> serialized_message.topic_name]]
        ELSE [status |-> "throw",
              transcoded |-> <<ros1_data_type, stream>>,
              ros_message |-> <<>>]

\* deserialize() as it would be if the stream started at the terminator of
\* the type name.
deserialize_keeping_terminator(serialized_message, type_support) ==
    LET buffer == serialized_message.serialized_data
        ros1_data_type == CString(buffer, 1)
        stream == SubSeq(buffer, Len(ros1_data_type) + 1, Len(buffer))
        converted == convert_1_to_2(ros1_data_type, stream)
    IN  IF converted.status = "ok"
        THEN [status |-> "ok",
              transcoded |-> <<ros1_data_type, stream>>,
              ros_message |-> [message |-> converted.message,
                               time_stamp |-> serialized_message.time_stamp,
                               topic_name |-> serialized_message.topic_name]]
        ELSE [status |-> "throw",
              transcoded |-> <<ros1_data_type, stream>>,
              ros_message |-> <<>>]

\* deserialize() as it would be if the caller's type support chose the
\* transcoding function.
deserialize_by_type_support(serialized_message, type_support) ==
    LET buffer == serialized_message.serialized_data
        ros1_data_type == CString(buffer, 1)
        stream == SubSeq(buffer, Len(ros1_data_type) + 2, Len(buffer))
        converted == convert_1_to_2(IF type_support = "ts_int32"
                                    THEN STD_MSGS_INT32
                                    ELSE STD_MSGS_STRING, stream)
    IN  [status |-> "ok",
         transcoded |-> <<ros1_data_type, stream>>,
         ros_message |-> [message |-> converted.message,
                          time_stamp |-> serialized_message.time_stamp,
                          topic_name |-> serialized_message.topic_name]]

\* RosbagV2Deserializer::deserialize(serialized_message, type_support,
\* ros_message): the outcome, the type name and the stream handed to the
\* transcoder and, on success, the message.
deserialize(serialized_message, type_support) ==
    LET buffer == serialized_message.serialized_data
        ros1_data_type == CString(buffer, 1)
        data_type_zero_terminated_length == Len(ros1_data_type) + 1
        stream == SubSeq(buffer, data_type_zero_terminated_length + 1,
                         data_type_zero_terminated_length
                             + (Len(buffer) - data_type_zero_terminated_length))
        converted == convert_1_to_2(ros1_data_type, stream)
    IN  IF converted.status = "ok"
        THEN [status |-> "ok",
              transcoded |-> <<ros1_data_type, stream>>,
              ros_message |-> [message |-> converted.message,
                               time_stamp |-> serialized_message.time_stamp,
                               topic_name |-> serialized_message.topic_name]]
        ELSE [status |-> "throw",
              transcoded |-> <<ros1_data_type, stream>>,
              ros_message |-> <<>>]

\* The consumer hands the record read_next() just returned to deserialize();
\* the call is recorded with its arguments and with what it handed on to
\* convert_1_to_2.
Deserialize(type_support) ==
    /\ phase = "alive"
    /\ ret.op = "read_next"
    /\ LET serialized_message == ret.val[1]
           result == deserialize(serialized_message, type_support)
       IN  ret' = Ret("deserialize",
                      <<serialized_message, type_support, result.transcoded>>,
                      result.status,
                      IF result.status = "ok" THEN <<result.ros_message>>
                      ELSE <<UnmappedTypeError>>)
    /\ UNCHANGED <<log, adapter, phase, out, metadataSeen>>

\* The destructor as it would be if it went through the view of replayable
\* messages, which is null until open() has succeeded.
DestroyThroughView ==
    /\ phase \in {"alive", "undefined"}
    /\ IF ~bag_view_of_replayable_messages_.set
       THEN Undefined("destroy", {<<>>}, {bag_iterator_})
       ELSE /\ phase' = "destroyed"
            /\ ros_v2_bag_' = <<>>
            /\ bag_view_of_replayable_messages_' = NullView
            /\ bag_iterator_' = 0
            /\ ret' = Ret("destroy", <<phase, ros_v2_bag_ # <<>>, TRUE,
                                      bag_iterator_
                                          > Len(bag_view_of_replayable_messages_.idx)>>,
                          "ok", <<>>)
            /\ out' = <<>>
            /\ metadataSeen' = <<>>
            /\ UNCHANGED log

\* RosbagV2Storage::~RosbagV2Storage(): Bag::close() returns at once on a bag
\* that is not open.
Destroy ==
    /\ phase \in {"alive", "undefined"}
    /\ phase' = "destroyed"
    /\ ros_v2_bag_' = <<>>
    /\ bag_view_of_replayable_messages_' = NullView
    /\ bag_iterator_' = 0
    /\ ret' = Ret("destroy",
                  <<phase, ros_v2_bag_ # <<>>, bag_view_of_replayable_messages_.set,
                    bag_iterator_ > Len(bag_view_of_replayable_messages_.idx)>>,
                  "ok", <<>>)
    /\ out' = <<>>
    /\ metadataSeen' = <<>>
    /\ UNCHANGED log

Next ==
    \/ \E uri \in Uris, flag \in IOFlags : Open(uri, flag)
    \/ HasNext
    \/ ReadNext
    \/ GetAllTopicsAndTypes
    \/ GetStorageIdentifier
    \/ GetBagfileSize
    \/ GetRelativeFilePath
    \/ GetMetadata
    \/ \E type_support \in TypeSupports : Deserialize(type_support)
    \/ Destroy

Spec == Init /\ [][Next]_vars

\* ------------------------------------------- the record codec on its own
\* The bytes of the type names and of the raw messages given to the codec; a
\* type name holds no 0, a raw message may.
NameBytes == {73, 83, 85, 110, 116}
PayloadBytes == {0, 7}

\* Logs of one connection and one message, of any type name and raw body.
CodecLogs ==
    {[conns |-> <<[topic |-> "/chatter", datatype |-> name]>>,
      msgs |-> <<[conn |-> 1, time |-> MsgTime(1), data |-> payload]>>] :
        name \in SeqsUpTo(NameBytes, MaxNameLen),
        payload \in SeqsUpTo(PayloadBytes, MaxPayloadLen)}

CodecInit ==
    /\ log \in CodecLogs
    /\ ros_v2_bag_ = <<>>
    /\ bag_view_of_replayable_messages_ = NullView
    /\ bag_iterator_ = 0
    /\ phase = "alive"
    /\ ret = Ret("construct", <<>>, "ok", <<>>)
    /\ out = <<>>
    /\ metadataSeen = <<>>

\* The record read_next() builds from the message of the log: the stream with
\* the type name, the terminator and the raw message.
WriteRecord ==
    /\ phase = "alive"
    /\ ret.op = "construct"
    /\ ret' = Ret("read_next", <<>>, "ok", <<SerializedBagMessage(log, 1)>>)
    /\ UNCHANGED <<log, adapter, phase, out, metadataSeen>>

CodecNext ==
    \/ WriteRecord
    \/ \E type_support \in TypeSupports : Deserialize(type_support)

CodecSpec == CodecInit /\ [][CodecNext]_vars

\* ------------------------------------------------------------ properties
Opened ==
    phase = "alive" /\ bag_view_of_replayable_messages_.set

\* The type mapping table has an entry for the legacy type.
HasMapping(datatype) ==
    get_1to2_mapping(datatype) # <<>>

Channel(k) ==
    log.conns[log.msgs[k].conn]

NSec(k) ==
    log.msgs[k].time.sec * 1000000000 + log.msgs[k].time.nsec

\* The messages of the log written on a channel whose legacy type is mapped.
MappedChannelRecords ==
    {k \in 1..Len(log.msgs) : HasMapping(Channel(k).datatype)}

\* The position the iterator has when no record is left.
AtEnd ==
    bag_iterator_ = Len(bag_view_of_replayable_messages_.idx) + 1

\* C1: reading an opened log while has_next() is true yields records of
\* mapped channels only, and has_next() is false exactly when as many records
\* were read as the log has on mapped channels.
C1_ReadsExactlyMappedChannelRecords ==
    Opened =>
        /\ AtEnd <=> Len(out) = Cardinality(MappedChannelRecords)
        /\ \A i \in 1..Len(out) :
               \E k \in MappedChannelRecords :
                   /\ out[i].topic_name = Channel(k).topic
                   /\ out[i].time_stamp = NSec(k)

\* C2: open() with the READ_WRITE flag throws the read-only error for every
\* uri, a missing file included, and leaves the bag closed, the view null and
\* the iterator unassigned.
C2_WriteModeRejectedBeforeOpen ==
    (ret.op = "open" /\ ret.args[2] = "READ_WRITE") =>
        /\ ret.status = "throw"
        /\ ret.val = <<UnsupportedModeError>>
        /\ ros_v2_bag_ = <<>>
        /\ ~bag_view_of_replayable_messages_.set
        /\ bag_iterator_ = 0

C2_Witness ==
    /\ ret.op = "open"
    /\ ret.args = <<MissingPath, "READ_WRITE">>
    /\ ret.status = "throw"

\* C3: read_next() on an opened adapter whose iterator is at the end throws
\* the end-of-log error and changes nothing of the adapter.
C3_ReadAtEndFailsCleanly ==
    [][(Opened /\ AtEnd /\ ret'.op = "read_next") =>
           /\ ret'.status = "throw"
           /\ ret'.val = <<EndOfLogError>>
           /\ phase' = "alive"
           /\ UNCHANGED <<log, adapter, out>>]_vars

\* C4: get_all_topics_and_types() lists a channel if and only if its legacy
\* type is mapped, each entry with the ROS 2 type name of the mapping, never a
\* legacy type name, and with the serialization format "rosbag_v2".
C4_TopicsAreTheMappedChannels ==
    (phase = "alive" /\ ret.op = "get_all_topics_and_types") =>
        LET listed == {ret.val[1][i] : i \in 1..Len(ret.val[1])}
            channels == {log.conns[i] : i \in 1..Len(log.conns)}
            expected == IF ros_v2_bag_ = <<>> THEN {}
                        ELSE {[name |-> c.topic,
                               type |-> get_1to2_mapping(c.datatype)[1],
                               serialization_format |-> "rosbag_v2"] :
                                  c \in {d \in channels : HasMapping(d.datatype)}}
        IN  /\ listed = expected
            /\ \A e \in listed : e.type \notin DataTypes

C4_Witness ==
    /\ phase = "alive"
    /\ ret.op = "get_all_topics_and_types"
    /\ Len(ret.val[1]) = 1
    /\ \E i, j \in 1..Len(log.conns) :
           HasMapping(log.conns[i].datatype) /\ ~HasMapping(log.conns[j].datatype)

\* C5: no two entries of get_all_topics_and_types() have the same topic name.
C5_TopicsDeduplicatedByTopic ==
    (phase = "alive" /\ ret.op = "get_all_topics_and_types") =>
        \A i, j \in 1..Len(ret.val[1]) :
            ret.val[1][i].name = ret.val[1][j].name => i = j

\* C6: after k successful read_next() calls the iterator is k records into
\* the view, and the i-th record returned is the i-th record of the view: its
\* topic, its time in nanoseconds and its tagged buffer; the view lists the
\* records in index order, so the time stamps come out ascending.
C6_ReadsFollowTheView ==
    Opened =>
        LET idx == bag_view_of_replayable_messages_.idx
        IN  /\ Len(out) = bag_iterator_ - 1
            /\ Len(out) <= Len(idx)
            /\ \A i \in 1..Len(out) :
                   /\ out[i].topic_name = Channel(idx[i]).topic
                   /\ out[i].time_stamp = NSec(idx[i])
                   /\ out[i].serialized_data =
                          Channel(idx[i]).datatype \o <<0>> \o log.msgs[idx[i]].data
            /\ \A i, j \in 1..Len(out) :
                   i < j => idx[i] < idx[j] /\ out[i].time_stamp <= out[j].time_stamp

C6_Witness ==
    /\ Opened
    /\ Len(out) = 2
    /\ Len(log.msgs) = 3
    /\ AtEnd

\* C7: for a record of a mapped channel, the record read_next() returned
\* carries the channel's topic and the record's time in nanoseconds, and
\* deserialize() of it gives a message with that time stamp and that topic.
C7_RoundTripKeepsTimeAndTopic ==
    (Opened /\ ret.op = "deserialize") =>
        LET k == bag_view_of_replayable_messages_.idx[bag_iterator_ - 1]
        IN  HasMapping(Channel(k).datatype) =>
                /\ ret.args[1].topic_name = Channel(k).topic
                /\ ret.args[1].time_stamp = NSec(k)
                /\ ret.status = "ok"
                /\ ret.val[1].time_stamp = NSec(k)
                /\ ret.val[1].topic_name = Channel(k).topic

C7_Witness ==
    /\ Opened
    /\ ret.op = "deserialize"
    /\ ret.status = "ok"
    /\ ret.val[1].time_stamp >= 1000000000
    /\ ret.val[1].topic_name = "/other"

\* C8: has_next() on an opened adapter returns whether the iterator is
\* before the end of the view, and changes nothing but the value returned.
C8_HasNextIsPure ==
    [][(Opened /\ ret'.op = "has_next") =>
           /\ ret'.status = "ok"
           /\ ret'.val = <<bag_iterator_ <= Len(bag_view_of_replayable_messages_.idx)>>
           /\ phase' = "alive"
           /\ UNCHANGED <<log, adapter, out, metadataSeen>>]_vars

C8_Witness ==
    /\ Opened
    /\ ret.op = "has_next"
    /\ ret.val = <<FALSE>>
    /\ Len(out) >= 2

\* C9: a get_metadata() result of the open bag equals every later one, with
\* any number of read_next() calls before and between.
C9_MetadataIdempotent ==
    (phase = "alive" /\ ret.op = "get_metadata" /\ metadataSeen # <<>>) =>
        ret.val = metadataSeen

C9_Witness ==
    /\ phase = "alive"
    /\ ret.op = "get_metadata"
    /\ metadataSeen # <<>>
    /\ Len(out) >= 2
    /\ ret.val[1].message_count > Len(out)

\* C10: get_metadata() of the open bag counts every record of the log, the
\* ones on unmapped channels too; its starting time and duration are the
\* earliest time and the span of all the records; its per-topic list holds
\* the mapped channels, each with the number of records on that topic.
C10_MetadataSpansWholeLog ==
    (phase = "alive" /\ ret.op = "get_metadata" /\ ros_v2_bag_ # <<>>) =>
        LET md == ret.val[1]
            all == 1..Len(log.msgs)
            per_topic == md.topics_with_message_count
        IN  /\ md.message_count = Len(log.msgs)
            /\ all # {} =>
                   /\ \E b, e \in all :
                          /\ \A k \in all : NSec(b) <= NSec(k) /\ NSec(k) <= NSec(e)
                          /\ md.starting_time = NSec(b)
                          /\ md.duration = NSec(e) - NSec(b)
            /\ \A i \in 1..Len(per_topic) :
                   /\ \E c \in 1..Len(log.conns) :
                          /\ log.conns[c].topic = per_topic[i].topic_metadata.name
                          /\ get_1to2_mapping(log.conns[c].datatype)
                                 = <<per_topic[i].topic_metadata.type>>
                   /\ per_topic[i].message_count =
                          Cardinality({k \in all : Channel(k).topic
                                           = per_topic[i].topic_metadata.name})
            /\ \A c \in 1..Len(log.conns) :
                   HasMapping(log.conns[c].datatype) =>
                       \E i \in 1..Len(per_topic) :
                           per_topic[i].topic_metadata.name = log.conns[c].topic

C10_Witness ==
    /\ phase = "alive"
    /\ ret.op = "get_metadata"
    /\ ros_v2_bag_ # <<>>
    /\ Len(ret.val[1].topics_with_message_count) = 1
    /\ ret.val[1].topics_with_message_count[1].message_count = 1
    /\ ret.val[1].message_count = 3
    /\ ret.val[1].duration > 900000000
    /\ Cardinality(MappedChannelRecords) = 1

\* C11: the legacy type name at the start of the buffer of every record
\* read_next() returned has an entry in the type mapping table.
C11_ReturnedBuffersNameMappedTypes ==
    Opened =>
        \A i \in 1..Len(out) :
            \E t \in {d \in DataTypes : HasMapping(d)} :
                /\ Len(out[i].serialized_data) > Len(t)
                /\ SubSeq(out[i].serialized_data, 1, Len(t) + 1) = t \o <<0>>

\* The topics of the log and, for a topic, its connections in the order
\* getConnections() lists them.
LogTopics ==
    {log.conns[c].topic : c \in 1..Len(log.conns)}

ConnectionsOf(topic) ==
    {c \in 1..Len(log.conns) : log.conns[c].topic = topic}

FirstConnectionOf(topic) ==
    CHOOSE c \in ConnectionsOf(topic) : \A d \in ConnectionsOf(topic) : c <= d

\* The topics of the query of the view open() built.
IncludedTopics ==
    {bag_view_of_replayable_messages_.topics[i] :
        i \in 1..Len(bag_view_of_replayable_messages_.topics)}

\* C12 as stated: a topic is in the inclusion set of open() if and only if
\* the first connection listed for it has a mapped type.
C12_FirstSeenDecidesInclusion ==
    Opened =>
        \A topic \in LogTopics :
            topic \in IncludedTopics
                <=> HasMapping(log.conns[FirstConnectionOf(topic)].datatype)

\* C12 as amended: a topic is in the inclusion set of open() if and only if
\* some connection listed for it has a mapped type, at whatever position; the
\* set names each topic once, and the view holds the records of these topics.
C12_AnyMappedConnectionIncludes ==
    Opened =>
        /\ \A topic \in LogTopics :
               topic \in IncludedTopics
                   <=> \E c \in ConnectionsOf(topic) : HasMapping(log.conns[c].datatype)
        /\ IncludedTopics \subseteq LogTopics
        /\ Len(bag_view_of_replayable_messages_.topics) = Cardinality(IncludedTopics)
        /\ \A k \in 1..Len(log.msgs) :
               Channel(k).topic \in IncludedTopics
                   <=> \E i \in 1..Len(bag_view_of_replayable_messages_.idx) :
                           bag_view_of_replayable_messages_.idx[i] = k

C12_Witness ==
    /\ Opened
    /\ \E topic \in IncludedTopics :
           /\ ~HasMapping(log.conns[FirstConnectionOf(topic)].datatype)
           /\ \E k \in 1..Len(log.msgs) :
                  Channel(k).topic = topic /\ HasMapping(Channel(k).datatype)
    /\ Len(out) >= 1

\* C13: once the iterator of an opened adapter is at the end, every further
\* has_next(), read_next(), get_all_topics_and_types() and get_metadata()
\* leaves it there: has_next() returns false and read_next() fails.
C13_ExhaustedIsStable ==
    [][(Opened /\ AtEnd
          /\ ret'.op \in {"has_next", "read_next", "get_all_topics_and_types",
                          "get_metadata"}) =>
           /\ phase' = "alive"
           /\ UNCHANGED <<bag_view_of_replayable_messages_, bag_iterator_>>
           /\ ret'.op = "has_next" => ret'.val = <<FALSE>>
           /\ ret'.op = "read_next" => ret'.status = "throw"]_vars

\* C16: a READ_ONLY open() of a log that cannot be opened throws the open
\* error and leaves the view null and the iterator unassigned, and as long as
\* a read_next() that follows the failed open() returns no record.
C16_FailedOpenServesNoReads ==
    [][/\ (ret'.op = "open" /\ ret'.args = <<MissingPath, "READ_ONLY">>) =>
              /\ ret'.status = "throw"
              /\ ret'.val = <<OpenError>>
              /\ ~bag_view_of_replayable_messages_'.set
              /\ bag_iterator_' = 0
       /\ (ret.op = "open" /\ ret.args = <<MissingPath, "READ_ONLY">>
             /\ ret.status = "throw" /\ ret'.op = "read_next") =>
              ret'.status # "ok"]_vars

\* C17: the destructor can run in every state of a live adapter (never
\* opened, open() failed, opened, exhausted); it ends with the bag closed and
\* does not fail.
C17_DestroyIsSafeEverywhere ==
    /\ phase = "alive" => ENABLED Destroy
    /\ ret.op = "destroy" =>
           /\ ret.status = "ok"
           /\ phase = "destroyed"
           /\ ros_v2_bag_ = <<>>

C17_Witness ==
    /\ ret.op = "destroy"
    /\ ret.args = <<"alive", FALSE, FALSE, FALSE>>
    /\ phase = "destroyed"

\* C18: get_all_topics_and_types(), get_metadata(), get_bagfile_size(),
\* get_relative_file_path() and get_storage_identifier() change neither the
\* iterator nor the view nor the bag, nor what has been read so far.
C18_GettersLeaveTheCursorAlone ==
    [][(phase = "alive"
          /\ ret'.op \in {"get_all_topics_and_types", "get_metadata", "get_bagfile_size",
                          "get_relative_file_path", "get_storage_identifier"}) =>
           /\ ret'.status = "ok"
           /\ phase' = "alive"
           /\ UNCHANGED <<log, adapter, out>>]_vars

C18_Witness ==
    /\ Opened
    /\ ret.op = "get_relative_file_path"
    /\ ret.val = <<"test.bag">>
    /\ Len(out) = 1
    /\ ~AtEnd

\* C14: for every buffer [type name][0][payload], deserialize() hands to the
\* transcoder the type name and the payload it was built from, the payload
\* having length total - (name length + 1); an empty payload included.
C14_BufferSplitsAtFirstZero ==
    ret.op = "deserialize" =>
        LET name == log.conns[1].datatype
            payload == log.msgs[1].data
            buffer == ret.args[1].serialized_data
        IN  /\ buffer = name \o <<0>> \o payload
            /\ ret.args[3] = <<name, payload>>
            /\ Len(ret.args[3][2]) = Len(buffer) - (Len(name) + 1)

C14_Witness ==
    /\ ret.op = "deserialize"
    /\ ret.args[1].serialized_data = <<85, 110, 0>>
    /\ ret.args[3] = <<MY_PKG_UNMAPPED, <<>>>>

\* C15: what deserialize() does with a record is the same for every type
\* support the caller passes: same outcome, same type name and stream handed
\* to the transcoder, same message, time stamp and topic name.
C15_TypeSupportIsIgnored ==
    ret.op = "deserialize" =>
        \A type_support \in TypeSupports :
            LET result == deserialize(ret.args[1], type_support)
            IN  /\ result.status = ret.status
                /\ result.transcoded = ret.args[3]
                /\ result.status = "ok" => <<result.ros_message>> = ret.val
                /\ result.status = "ok" =>
                       get_1to2_mapping(CString(ret.args[1].serialized_data, 1))
                           = <<ret.val[1].message.type>>

C15_Witness ==
    /\ ret.op = "deserialize"
    /\ ret.status = "ok"
    /\ ret.args[2] = "ts_int32"
    /\ ret.val[1].message.type = STD_MSGS_MSG_STRING

\* The topic names get_all_topics_and_types() lists for the open bag.
ListedTopics ==
    {get_all_topics_and_types[i].name : i \in 1..Len(get_all_topics_and_types)}

\* C19: on an opened adapter the topics of the view's query are the topic
\* names get_all_topics_and_types() returns; every record read is on a listed
\* topic, and at exhaustion every record of a listed topic has been read.
C19_ReadAndTopicSurfacesAgree ==
    Opened =>
        /\ IncludedTopics = ListedTopics
        /\ ret.op = "get_all_topics_and_types" =>
               {ret.val[1][i].name : i \in 1..Len(ret.val[1])} = IncludedTopics
        /\ \A i \in 1..Len(out) : out[i].topic_name \in ListedTopics
        /\ AtEnd =>
               Len(out) = Cardinality({k \in 1..Len(log.msgs) :
                                          Channel(k).topic \in ListedTopics})

C19_Witness ==
    /\ Opened
    /\ AtEnd
    /\ ret.op = "get_all_topics_and_types"
    /\ Len(ret.val[1]) = 1
    /\ IncludedTopics = {"/chatter"}
    /\ Len(out) = 2
    /\ Len(log.msgs) = 3

\* The sum of message_count over the entries i.. of topics_with_message_count.
RECURSIVE SumOfTopicCounts(_, _)
SumOfTopicCounts(topics_with_message_count, i) ==
    IF i > Len(topics_with_message_count) THEN 0
    ELSE topics_with_message_count[i].message_count
             + SumOfTopicCounts(topics_with_message_count, i + 1)

\* C20: the per-topic counts of get_metadata() add up to the number of
\* records read from open() to exhaustion, and to no more than message_count.
C20_TopicCountsAccountForReads ==
    (Opened /\ AtEnd /\ ret.op = "get_metadata") =>
        /\ SumOfTopicCounts(ret.val[1].topics_with_message_count, 1) = Len(out)
        /\ SumOfTopicCounts(ret.val[1].topics_with_message_count, 1)
               <= ret.val[1].message_count
=============================================================================
